---------------------------- MODULE Spec2Model ----------------------------
(***************************************************************************)
(* Model of the quant-risk-aggregator: the Portfolio ledger                *)
(* (src/portfolio.py), and the simulation driver (src/run.py) with its     *)
(* demo trader (src/trader.py).                                            *)
(*                                                                         *)
(* Money is counted in whole units of the smallest amount that appears in  *)
(* the inputs (the ledger's arithmetic is homogeneous in the money unit),  *)
(* so cash, prices and commissions are integers.  avg_cost and             *)
(* realized_pnl are quotients: they are exact rationals <<n, d>>, d > 0,   *)
(* in lowest terms.  Python's float rounding is not modelled.              *)
(***************************************************************************)
EXTENDS Integers, Sequences, FiniteSets, TLC

\* ------------------------------------------------------------------ bounds
MaxCash == 3
MaxQty == 2
MaxPrice == 2
MaxFills == 2
\* the round trip: the quantity and the prices go up to these
MaxTripQty == 3
MaxTripPrice == 3
\* the driver: --cash, the largest --trade-size, and len(ohlcv)
DriverCash == 8
MaxTradeSize == 2
MaxRows == 7
\* risk.py: the largest equity and the longest equity series of a
\* compute_drawdown call, the rows a PnL series has beyond MinVarWindow,
\* and the largest daily gain or loss in it
MaxEquity == 2
MaxEquityLen == 4
VarExtra == 1
MaxMove == 2

Symbols == {"A", "B"}
InitialCashes == {MaxCash}
\* requested quantities: 0 is the rejected one (fill.qty <= 0)
Qtys == 0..MaxQty
Prices == 1..MaxPrice
\* commissions: none, one unit, and one that can exceed a sale's proceeds
Comms == {0, 1, 2}
\* "HOLD" stands for any side other than BUY and SELL
Sides == {"BUY", "SELL", "HOLD"}

\* ------------------------------------------------------- exact arithmetic
Abs(x) == IF x < 0 THEN -x ELSE x
Min(a, b) == IF a < b THEN a ELSE b
Max(a, b) == IF a > b THEN a ELSE b

RECURSIVE GCD(_, _)
GCD(a, b) == IF b = 0 THEN a ELSE GCD(b, a % b)

\* the rational n/d (d > 0) in lowest terms
Norm(n, d) == LET g == GCD(Abs(n), d) IN <<n \div g, d \div g>>
Rat(n) == <<n, 1>>
Zero == <<0, 1>>
RAdd(x, y) == Norm(x[1] * y[2] + y[1] * x[2], x[2] * y[2])
RSub(x, y) == Norm(x[1] * y[2] - y[1] * x[2], x[2] * y[2])
RMulInt(x, k) == Norm(x[1] * k, x[2])
\* x / k for an integer k > 0
RDivInt(x, k) == Norm(x[1], x[2] * k)
RLess(x, y) == x[1] * y[2] < y[1] * x[2]

\* ------------------------------------------------------------- Portfolio
VARIABLES
    initial_cash,   \* Portfolio.initial_cash
    cash,           \* Portfolio.cash
    positions,      \* Portfolio.positions: symbol -> Position
    realized_pnl,   \* Portfolio.realized_pnl
    fills,          \* Portfolio.fills
    last,           \* the last call made on the Portfolio and how it ended
    snap,           \* what the last call returned, when it was snapshot()
    plan,           \* a scripted caller: the fills it will ask for, in order
    step,           \* a scripted caller: how many of them it has asked for
    pc,             \* main(): where the run is
    error,          \* main(): the ValueError that ended the run, "" if none
    args,           \* main(): the parsed command line
    n_rows,         \* main(): len(ohlcv)
    ohlcv,          \* main(): the rows loaded, when the run fixes them up
                    \* front; <<>> when they are drawn as the loop reaches them
    bars,           \* main(): the rows of ohlcv the loop has reached
    pnl_rows,       \* main(): pnl_rows, then the rows of pnl_df
    alert_rows      \* main(): alert_rows

ledger == <<initial_cash, cash, positions, realized_pnl, fills>>
script == <<plan, step>>
driver == <<pc, error, args, n_rows, ohlcv, bars, pnl_rows, alert_rows>>
vars == <<initial_cash, cash, positions, realized_pnl, fills, last, snap,
          plan, step, pc, error, args, n_rows, ohlcv, bars, pnl_rows,
          alert_rows>>

\* Fill(date, symbol, side, qty, price, commission)
Fill(date, symbol, side, qty, price, commission) ==
    [date |-> date, symbol |-> symbol, side |-> side, qty |-> qty,
     price |-> price, commission |-> commission]

\* the record kept of a call: the method, the side and quantity asked for
\* (of an apply_fill call) and how it ended: "ok", or for apply_fill
\* "raised" (ValueError), "dropped" (early return) or "accepted" (appended)
Call(op, side, qty, outcome) ==
    [op |-> op, side |-> side, qty |-> qty, outcome |-> outcome]

\* Position(symbol=symbol): qty = 0, avg_cost = 0.0
Position(symbol) == [symbol |-> symbol, qty |-> 0, avg_cost |-> Zero]

\* Position.market_value
market_value(pos, price) == pos.qty * price

NoPositions == [s \in {} |-> Position(s)]

NoSnap ==
    [Date |-> 0, Cash |-> 0, MarketValue |-> 0, Equity |-> 0,
     RealizedPnL |-> Zero, UnrealizedPnL |-> Zero,
     GrossExposure |-> 0, NetExposure |-> 0, taken |-> FALSE]

\* Portfolio.get_position, as a function of the mapping: the mapping after
\* the call (the Position is created when the symbol is not a key)
get_position_map(P, symbol) ==
    IF symbol \in DOMAIN P THEN P ELSE P @@ (symbol :> Position(symbol))

\* a clamp that forgets the commission
BuyQty_commissionFree(c, qty, px, comm) ==
    IF qty * px + comm > c THEN c \div px ELSE qty

\* BUY: the quantity bought, max_qty when total_cost > cash (a value <= 0
\* means the fill is dropped)
BuyQty(c, qty, px, comm) ==
    IF qty * px + comm > c THEN (c - comm) \div px ELSE qty

\* a BUY that averages the old cost and the fill price, unweighted
BuyAvgCost_unweighted(pos, px, qty) == RDivInt(RAdd(pos.avg_cost, Rat(px)), 2)

\* BUY: pos.avg_cost after buying qty at px
BuyAvgCost(pos, px, qty) ==
    LET new_qty == pos.qty + qty
    IN  IF new_qty = 0
        THEN Zero
        ELSE RDivInt(RAdd(RMulInt(pos.avg_cost, pos.qty), Rat(px * qty)), new_qty)

\* a SELL that is not capped at the held quantity
SellQty_uncapped(qty, held) == qty

\* SELL: sell_qty = min(qty, pos.qty)
SellQty(qty, held) == Min(qty, held)

\* a realized PnL that forgets the commission
RealizedDelta_noCommission(px, avg_cost, sell_qty, comm) ==
    RMulInt(RSub(Rat(px), avg_cost), sell_qty)

\* SELL: (px - pos.avg_cost) * sell_qty - comm
RealizedDelta(px, avg_cost, sell_qty, comm) ==
    RSub(RMulInt(RSub(Rat(px), avg_cost), sell_qty), Rat(comm))

\* a SELL that never resets avg_cost
SellAvgCost_kept(new_qty, avg_cost) == avg_cost

\* SELL: pos.avg_cost after pos.qty became new_qty
SellAvgCost(new_qty, avg_cost) == IF new_qty = 0 THEN Zero ELSE avg_cost

\* SELL: the qty of the Fill appended to the history (the local `qty`,
\* which the SELL branch never reassigns)
SellRecordedQty(qty, sell_qty) == qty

\* a validation that forgets the quantity
InvalidFill_sideOnly(fill) == fill.side \notin {"BUY", "SELL"}

\* apply_fill raises ValueError for these
InvalidFill(fill) == fill.qty <= 0 \/ fill.side \notin {"BUY", "SELL"}

\* Portfolio.apply_fill on the ledger L = [cash, positions, realized_pnl,
\* fills]: the ledger after the call and how the call ended
ApplyFill(L, fill) ==
    IF InvalidFill(fill)
    THEN [cash |-> L.cash, positions |-> L.positions,
          realized_pnl |-> L.realized_pnl, fills |-> L.fills,
          outcome |-> "raised"]
    ELSE
    LET P == get_position_map(L.positions, fill.symbol)
        pos == P[fill.symbol]
        px == fill.price
        comm == fill.commission
    IN  IF fill.side = "BUY"
        THEN LET qty == BuyQty(L.cash, fill.qty, px, comm)
                 total_cost == qty * px + comm
             IN  IF qty <= 0
                 THEN [cash |-> L.cash, positions |-> P,
                       realized_pnl |-> L.realized_pnl, fills |-> L.fills,
                       outcome |-> "dropped"]
                 ELSE [cash |-> L.cash - total_cost,
                       positions |->
                           [P EXCEPT ![fill.symbol] =
                               [symbol |-> pos.symbol,
                                qty |-> pos.qty + qty,
                                avg_cost |-> BuyAvgCost(pos, px, qty)]],
                       realized_pnl |-> L.realized_pnl,
                       fills |-> Append(L.fills,
                           Fill(fill.date, fill.symbol, fill.side, qty, px, comm)),
                       outcome |-> "accepted"]
        ELSE LET sell_qty == SellQty(fill.qty, pos.qty)
                 proceeds == sell_qty * px - comm
             IN  IF sell_qty <= 0
                 THEN [cash |-> L.cash, positions |-> P,
                       realized_pnl |-> L.realized_pnl, fills |-> L.fills,
                       outcome |-> "dropped"]
                 ELSE [cash |-> L.cash + proceeds,
                       positions |->
                           [P EXCEPT ![fill.symbol] =
                               [symbol |-> pos.symbol,
                                qty |-> pos.qty - sell_qty,
                                avg_cost |-> SellAvgCost(pos.qty - sell_qty, pos.avg_cost)]],
                       realized_pnl |->
                           RAdd(L.realized_pnl,
                                RealizedDelta(px, pos.avg_cost, sell_qty, comm)),
                       fills |-> Append(L.fills,
                           Fill(fill.date, fill.symbol, fill.side,
                                SellRecordedQty(fill.qty, sell_qty), px, comm)),
                       outcome |-> "accepted"]


\* prices.get(sym, 0.0)
PriceOf(prices, sym) == IF sym \in DOMAIN prices THEN prices[sym] ELSE 0

\* snapshot's loop over self.positions.items(), restricted to the symbols S:
\* the sums mv_total (= net), gross and unreal
RECURSIVE SnapshotSums(_, _, _)
SnapshotSums(P, prices, S) ==
    IF S = {}
    THEN [mv_total |-> 0, gross |-> 0, net |-> 0, unreal |-> Zero]
    ELSE LET sym == CHOOSE s \in S : TRUE
             rest == SnapshotSums(P, prices, S \ {sym})
             pos == P[sym]
             px == PriceOf(prices, sym)
             mv == market_value(pos, px)
         IN  [mv_total |-> rest.mv_total + mv,
              gross |-> rest.gross + Abs(mv),
              net |-> rest.net + mv,
              unreal |-> RAdd(rest.unreal,
                  IF pos.qty # 0
                  THEN RMulInt(RSub(Rat(px), pos.avg_cost), pos.qty)
                  ELSE Zero)]

\* an equity that leaves the cash out
SnapshotEquity_withoutCash(c, mv_total) == mv_total

\* snapshot: equity = self.cash + mv_total
SnapshotEquity(c, mv_total) == c + mv_total

\* Portfolio.snapshot: the dict it returns
Snapshot(L, date, prices) ==
    LET t == SnapshotSums(L.positions, prices, DOMAIN L.positions)
    IN  [Date |-> date, Cash |-> L.cash, MarketValue |-> t.mv_total,
         Equity |-> SnapshotEquity(L.cash, t.mv_total),
         RealizedPnL |-> L.realized_pnl, UnrealizedPnL |-> t.unreal,
         GrossExposure |-> t.gross, NetExposure |-> t.net, taken |-> TRUE]

\* a snapshot that looks every priced symbol up with get_position
RECURSIVE SnapshotPositions_lazy(_, _)
SnapshotPositions_lazy(P, prices) ==
    IF DOMAIN prices \subseteq DOMAIN P
    THEN P
    ELSE LET sym == CHOOSE s \in DOMAIN prices \ DOMAIN P : TRUE
         IN  SnapshotPositions_lazy(get_position_map(P, sym), prices)

\* Portfolio.snapshot: the mapping it leaves behind (it only reads
\* self.positions.items() and prices.get)
SnapshotPositions(P, prices) == P

Ledger ==
    [cash |-> cash, positions |-> positions,
     realized_pnl |-> realized_pnl, fills |-> fills]

PriceMaps == UNION {[S -> Prices] : S \in SUBSET Symbols}

\* no run of main(): the Portfolio is called directly
NoArgs ==
    [cash |-> 0, slippage_bps |-> 0, commission |-> 0, fast |-> 0, slow |-> 0,
     trade_size |-> 0, var_window |-> 0]

NoDriver ==
    /\ pc = "none"
    /\ error = ""
    /\ args = NoArgs
    /\ n_rows = 0
    /\ ohlcv = <<>>
    /\ bars = <<>>
    /\ pnl_rows = <<>>
    /\ alert_rows = <<>>

\* ------------------------------------------- calls on a Portfolio (Spec)
\* Portfolio.__init__(initial_cash) with initial_cash > 0
Init ==
    /\ initial_cash \in InitialCashes
    /\ cash = initial_cash
    /\ positions = NoPositions
    /\ realized_pnl = Zero
    /\ fills = <<>>
    /\ last = Call("init", "", 0, "ok")
    /\ snap = NoSnap
    /\ plan = <<>>
    /\ step = 0
    /\ NoDriver

\* a call of portfolio.apply_fill(fill)
apply_fill(fill) ==
    \E r \in {ApplyFill(Ledger, fill)} :
        /\ cash' = r.cash
        /\ positions' = r.positions
        /\ realized_pnl' = r.realized_pnl
        /\ fills' = r.fills
        /\ last' = Call("apply_fill", fill.side, fill.qty, r.outcome)
        /\ snap' = NoSnap
        /\ UNCHANGED initial_cash

\* a call of portfolio.get_position(symbol)
get_position(symbol) ==
    /\ positions' = get_position_map(positions, symbol)
    /\ last' = Call("get_position", "", 0, "ok")
    /\ snap' = NoSnap
    /\ UNCHANGED <<initial_cash, cash, realized_pnl, fills>>

\* a call of portfolio.snapshot(date, prices)
snapshot(date, prices) ==
    /\ snap' = Snapshot(Ledger, date, prices)
    /\ positions' = SnapshotPositions(positions, prices)
    /\ last' = Call("snapshot", "", 0, "ok")
    /\ UNCHANGED <<initial_cash, cash, realized_pnl, fills>>

\* the fills asked for: every well-formed one, and for each symbol the
\* malformed ones (qty <= 0, or a side that is neither BUY nor SELL)
FillInputs ==
    {Fill(1, s, side, q, p, c) :
        s \in Symbols, side \in {"BUY", "SELL"}, q \in Qtys \ {0},
        p \in Prices, c \in Comms}
    \cup {Fill(1, s, side, q, 1, 0) : s \in Symbols, side \in Sides, q \in {-1, 0}}
    \cup {Fill(1, s, "HOLD", q, 1, 0) : s \in Symbols, q \in Qtys}

ApplyFillCall ==
    /\ Len(fills) < MaxFills
    /\ \E fill \in FillInputs : apply_fill(fill)
    /\ UNCHANGED <<script, driver>>

GetPositionCall ==
    /\ \E s \in Symbols : get_position(s)
    /\ UNCHANGED <<script, driver>>

SnapshotCall ==
    /\ \E prices \in PriceMaps : snapshot(1, prices)
    /\ UNCHANGED <<script, driver>>

Next == ApplyFillCall \/ GetPositionCall \/ SnapshotCall

Spec == Init /\ [][Next]_vars

\* --------------------- a round trip on a fresh Portfolio (SpecRoundTrip)
\* BUY N @ p1, then SELL N @ p2, of one symbol, with no commission
RoundTrips ==
    {<<Fill(1, s, "BUY", N, p1, 0), Fill(2, s, "SELL", N, p2, 0)>> :
        s \in Symbols, N \in 1..MaxTripQty,
        p1 \in 1..MaxTripPrice, p2 \in 1..MaxTripPrice}

\* a Portfolio that can pay for every round trip, and one that cannot
TripCashes == {MaxCash, MaxTripQty * MaxTripPrice}

InitRoundTrip ==
    /\ initial_cash \in TripCashes
    /\ cash = initial_cash
    /\ positions = NoPositions
    /\ realized_pnl = Zero
    /\ fills = <<>>
    /\ last = Call("init", "", 0, "ok")
    /\ snap = NoSnap
    /\ plan \in RoundTrips
    /\ step = 0
    /\ NoDriver

\* the scripted caller asks for its next fill
PlannedFill ==
    /\ step < Len(plan)
    /\ apply_fill(plan[step + 1])
    /\ step' = step + 1
    /\ UNCHANGED <<plan, driver>>

SpecRoundTrip == InitRoundTrip /\ [][PlannedFill]_vars

\* ------------------------------------------------------------ risk.py
\* x / y for integers, y # 0
RFrac(n, d) == IF d < 0 THEN Norm(-n, -d) ELSE Norm(n, d)
RMul(x, y) == Norm(x[1] * y[1], x[2] * y[2])
RLeq(x, y) == x[1] * y[2] <= y[1] * x[2]
RMax(x, y) == IF RLess(x, y) THEN y ELSE x

\* a sequence without its i-th element
Remove(x, i) == SubSeq(x, 1, i - 1) \o SubSeq(x, i + 1, Len(x))

\* the integers of x in ascending order
RECURSIVE Sorted(_)
Sorted(x) ==
    IF x = <<>>
    THEN <<>>
    ELSE LET i == CHOOSE k \in 1..Len(x) : \A j \in 1..Len(x) : x[k] <= x[j]
         IN  <<x[i]>> \o Sorted(Remove(x, i))

\* np.quantile(x, q), numpy's default (linear) method: the value at the
\* position (n - 1) * q of the sorted x, interpolated between its neighbours
Quantile(x, q) ==
    LET n == Len(x)
        s == Sorted(x)
        lo == ((n - 1) * q[1]) \div q[2]
        hi == Min(lo + 1, n - 1)
        frac == RSub(Norm((n - 1) * q[1], q[2]), Rat(lo))
    IN  RAdd(Rat(s[lo + 1]), RMul(frac, Rat(s[hi + 1] - s[lo + 1])))

\* rolling_historical_var.var_of_window: max(0, -quantile(x, 1 - alpha))
var_of_window(x, alpha) ==
    RMax(Zero, RSub(Zero, Quantile(x, RSub(Rat(1), alpha))))

\* a value of the VaR column: NaN, or a number
NaN == [present |-> FALSE, value |-> Zero]
\* check_limits' var_value may also be None
None == [present |-> FALSE, value |-> Zero, none |-> TRUE]
Num(v) == [present |-> TRUE, value |-> v]

\* rolling_historical_var raises below this window
MinVarWindow == 20

\* a window that reaches one day ahead where there is one
rolling_historical_var_ahead(vals, window, alpha) ==
    [i \in 1..Len(vals) |->
        IF i < window
        THEN NaN
        ELSE LET e == Min(i + 1, Len(vals))
             IN  Num(var_of_window(SubSeq(vals, e - window + 1, e), alpha))]

\* rolling_historical_var(pnl_series, window, alpha), for window >=
\* MinVarWindow: NaN before index window - 1 (0-based), then the VaR of
\* the trailing window
rolling_historical_var(vals, window, alpha) ==
    [i \in 1..Len(vals) |->
        IF i < window
        THEN NaN
        ELSE Num(var_of_window(SubSeq(vals, i - window + 1, i), alpha))]

\* a peak that stays at the first equity
CumMax_first(equity, i) == equity[1]

\* equity.cummax() at index i
RECURSIVE CumMax(_, _)
CumMax(equity, i) ==
    IF i = 1 THEN equity[1] ELSE Max(CumMax(equity, i - 1), equity[i])

\* compute_drawdown(equity): (peak - equity) / peak, 0.0 where peak is 0
compute_drawdown(equity) ==
    [i \in 1..Len(equity) |->
        LET peak == CumMax(equity, i)
        IN  IF peak = 0 THEN Zero ELSE RFrac(peak - equity[i], peak)]

\* pnl_df["Equity"].diff().fillna(0.0)
DailyPnL(equity) ==
    [i \in 1..Len(equity) |-> IF i = 1 THEN 0 ELSE equity[i] - equity[i - 1]]

Alert(date, type, value, limit) ==
    [Date |-> date, Type |-> type, Value |-> value, Limit |-> limit]

\* a check that stops at the first limit it finds breached
check_limits_firstOnly(date, row, var_value, limits) ==
    LET gross == Rat(row.GrossExposure)
        dd == row.Drawdown
        eq == Rat(row.Equity)
    IN  IF RLess(limits.max_gross_exposure, gross)
        THEN <<Alert(date, "GROSS_EXPOSURE", gross, limits.max_gross_exposure)>>
        ELSE IF RLeq(limits.max_drawdown, dd)
        THEN <<Alert(date, "DRAWDOWN", dd, limits.max_drawdown)>>
        ELSE IF var_value.present /\ RLess(limits.max_var, var_value.value)
        THEN <<Alert(date, "VAR", var_value.value, limits.max_var)>>
        ELSE IF RLeq(eq, Zero)
        THEN <<Alert(date, "EQUITY_NONPOSITIVE", eq, Zero)>>
        ELSE <<>>

\* check_limits(date, snapshot, var_value, limits): the alerts, in the
\* order the four tests append them
check_limits(date, row, var_value, limits) ==
    LET gross == Rat(row.GrossExposure)
        dd == row.Drawdown
        eq == Rat(row.Equity)
    IN  (IF RLess(limits.max_gross_exposure, gross)
         THEN <<Alert(date, "GROSS_EXPOSURE", gross, limits.max_gross_exposure)>>
         ELSE <<>>)
        \o (IF RLeq(limits.max_drawdown, dd)
            THEN <<Alert(date, "DRAWDOWN", dd, limits.max_drawdown)>>
            ELSE <<>>)
        \o (IF var_value.present /\ RLess(limits.max_var, var_value.value)
            THEN <<Alert(date, "VAR", var_value.value, limits.max_var)>>
            ELSE <<>>)
        \o (IF RLeq(eq, Zero)
            THEN <<Alert(date, "EQUITY_NONPOSITIVE", eq, Zero)>>
            ELSE <<>>)

\* ---------------------------------------------------------- trader.py
\* the sum of close[i - w + 1 .. i]
RECURSIVE WindowSum(_, _, _)
WindowSum(close, i, w) ==
    IF w = 0 THEN 0 ELSE close[i] + WindowSum(close, i - 1, w - 1)

\* generate_signals(close, fast, slow) at index i (1-based): 1 when the
\* fast mean is above the slow mean, 0 otherwise and while either mean
\* has fewer than its window of rows (NaN > x is False)
generate_signals(close, fast, slow, i) ==
    IF /\ i >= fast
       /\ i >= slow
       /\ WindowSum(close, i, fast) * slow > WindowSum(close, i, slow) * fast
    THEN 1
    ELSE 0

NoDecision == [side |-> "NONE", qty |-> 0]

\* a trader that asks to sell trade_size whatever is held
decide_fill_uncapped(regime_today, current_qty, trade_size) ==
    IF regime_today \notin {0, 1}
    THEN NoDecision
    ELSE IF regime_today = 1
    THEN [side |-> "BUY", qty |-> trade_size]
    ELSE IF current_qty <= 0
    THEN NoDecision
    ELSE [side |-> "SELL", qty |-> trade_size]

\* decide_fill(date, symbol, regime_today, current_qty, cfg)
decide_fill(regime_today, current_qty, trade_size) ==
    IF regime_today \notin {0, 1}
    THEN NoDecision
    ELSE IF regime_today = 1
    THEN [side |-> "BUY", qty |-> trade_size]
    ELSE IF current_qty <= 0
    THEN NoDecision
    ELSE [side |-> "SELL", qty |-> Min(trade_size, current_qty)]

\* ----------------------------------------------- run.py (SpecDriver)
\* --ticker
Ticker == "A"

\* apply_slippage(price, side, bps): price * (1 +- bps / 10000).  The
\* prices of the bars and the rates are chosen so that this is a whole
\* number; any other side raises, and decide_fill gives none
apply_slippage(price, side, bps) ==
    IF side = "BUY"
    THEN (price * (10000 + bps)) \div 10000
    ELSE (price * (10000 - bps)) \div 10000

\* the rows of ohlcv: Open and Close (the other columns are not read)
BarPrices == {2, 4}
Bars == [Open : BarPrices, Close : BarPrices]

\* the command lines of the short runs: --cash 0 is rejected by Portfolio,
\* --trade-size 0 by apply_fill
ArgSets ==
    [cash : {0, DriverCash},
     slippage_bps : {5000},
     commission : {1},
     fast : {1},
     slow : {2},
     trade_size : 0..MaxTradeSize,
     var_window : {MinVarWindow},
     var_alpha : {<<99, 100>>},
     max_gross : {Rat(DriverCash)},
     max_dd : {<<1, 5>>},
     max_var : {Rat(1)}]

\* len(ohlcv): one row short of what main() asks for, and enough
RowCounts == (MaxRows - 1)..MaxRows

\* the runs long enough for a VaR: the Close stays at 2 for a days, rises
\* by 2 a day for r days, stays there up to day b and is 2 again from
\* then on; every Open is the Close of the day before
TapeRows == MinVarWindow + VarExtra
TapeClose(a, r, b, i) ==
    IF i <= a \/ i > b THEN 2 ELSE 2 + 2 * Min(i - a, r)
Tape(a, r, b) ==
    [i \in 1..TapeRows |->
        [Open |-> IF i = 1 THEN 2 ELSE TapeClose(a, r, b, i - 1),
         Close |-> TapeClose(a, r, b, i)]]
Tapes ==
    {Tape(a, r, IF falls THEN a + r ELSE TapeRows) :
        a \in 1..(TapeRows - 3), r \in 1..2, falls \in BOOLEAN}
\* their command lines: --var-window 19 is rejected by
\* rolling_historical_var
TapeArgSets ==
    [cash : {DriverCash},
     slippage_bps : {0, 5000},
     commission : {1},
     fast : {1},
     slow : {2},
     trade_size : 1..MaxTradeSize,
     var_window : {MinVarWindow - 1, MinVarWindow},
     var_alpha : {<<99, 100>>},
     max_gross : {Rat(DriverCash)},
     max_dd : {<<1, 5>>},
     max_var : {Rat(1)}]

InitDriver ==
    /\ initial_cash = 0
    /\ cash = 0
    /\ positions = NoPositions
    /\ realized_pnl = Zero
    /\ fills = <<>>
    /\ last = Call("none", "", 0, "ok")
    /\ snap = NoSnap
    /\ plan = <<>>
    /\ step = 0
    /\ pc = "start"
    /\ error = ""
    /\ \/ /\ args \in ArgSets
          /\ n_rows \in RowCounts
          /\ ohlcv = <<>>
       \/ /\ args \in TapeArgSets
          /\ ohlcv \in Tapes
          /\ n_rows = Len(ohlcv)
    /\ bars = <<>>
    /\ pnl_rows = <<>>
    /\ alert_rows = <<>>

\* raise ValueError
Raise(what) == pc' = "failed" /\ error' = what

\* main(): if len(ohlcv) < max(args.fast, args.slow) + 5: raise
D_CheckRows ==
    /\ pc = "start"
    /\ IF n_rows < Max(args.fast, args.slow) + 5
       THEN Raise("rows")
       ELSE pc' = "construct" /\ error' = error
    /\ UNCHANGED <<ledger, last, snap, script, args, n_rows, ohlcv, bars,
                   pnl_rows,
                   alert_rows>>

\* main(): portfolio = Portfolio(initial_cash=float(args.cash))
D_Construct ==
    /\ pc = "construct"
    /\ IF args.cash <= 0
       THEN /\ Raise("initial_cash")
            /\ UNCHANGED <<ledger, last>>
       ELSE /\ initial_cash' = args.cash
            /\ cash' = args.cash
            /\ positions' = NoPositions
            /\ realized_pnl' = Zero
            /\ fills' = <<>>
            /\ last' = Call("init", "", 0, "ok")
            /\ pc' = "open"
            /\ error' = error
    /\ UNCHANGED <<snap, script, args, n_rows, ohlcv, bars, pnl_rows,
                   alert_rows>>

\* the Close column of the rows
Closes(rows) == [i \in 1..Len(rows) |-> rows[i].Close]

\* main(), the loop body up to portfolio.apply_fill(fill), for the next
\* row of ohlcv: the position is looked up, the trader decides, and the
\* fill it decides on is applied at the slipped Open
D_Open ==
    /\ pc = "open"
    /\ Len(bars) < n_rows
    /\ \E row \in (IF ohlcv = <<>> THEN Bars ELSE {ohlcv[Len(bars) + 1]}) :
        LET dt == Len(bars) + 1
            P == get_position_map(positions, Ticker)
            reg == generate_signals(Closes(Append(bars, row)), args.fast, args.slow, dt)
            decision == decide_fill(reg, P[Ticker].qty, args.trade_size)
            fill == Fill(dt, Ticker, decision.side, decision.qty,
                         apply_slippage(row.Open, decision.side, args.slippage_bps),
                         args.commission)
        IN  /\ bars' = Append(bars, row)
            /\ IF decision = NoDecision
               THEN /\ positions' = P
                    /\ last' = Call("get_position", "", 0, "ok")
                    /\ pc' = "close"
                    /\ UNCHANGED <<cash, realized_pnl, fills, error>>
               ELSE \E r \in {ApplyFill([Ledger EXCEPT !.positions = P], fill)} :
                    /\ cash' = r.cash
                    /\ positions' = r.positions
                    /\ realized_pnl' = r.realized_pnl
                    /\ fills' = r.fills
                    /\ last' = Call("apply_fill", fill.side, fill.qty, r.outcome)
                    /\ IF r.outcome = "raised"
                       THEN Raise("fill")
                       ELSE pc' = "close" /\ error' = error
    /\ snap' = NoSnap
    /\ UNCHANGED <<initial_cash, script, args, n_rows, ohlcv, pnl_rows,
                   alert_rows>>

\* a loop that records no snapshot for a row at whose close nothing is held
D_Close_onlyWhenInvested ==
    /\ pc = "close"
    /\ LET dt == Len(bars)
       IN  snap' = Snapshot(Ledger, dt, Ticker :> bars[dt].Close)
    /\ pnl_rows' = IF positions[Ticker].qty = 0
                   THEN pnl_rows
                   ELSE Append(pnl_rows, snap')
    /\ last' = Call("snapshot", "", 0, "ok")
    /\ pc' = IF Len(bars) = n_rows THEN "risk" ELSE "open"
    /\ UNCHANGED <<ledger, script, error, args, n_rows, ohlcv, bars,
                   alert_rows>>

\* main(), the end of the loop body: the snapshot at the row's Close is
\* appended to pnl_rows; after the last row the loop is left
D_Close ==
    /\ pc = "close"
    /\ LET dt == Len(bars)
       IN  snap' = Snapshot(Ledger, dt, Ticker :> bars[dt].Close)
    /\ pnl_rows' = Append(pnl_rows, snap')
    /\ last' = Call("snapshot", "", 0, "ok")
    /\ pc' = IF Len(bars) = n_rows THEN "risk" ELSE "open"
    /\ UNCHANGED <<ledger, script, error, args, n_rows, ohlcv, bars,
                   alert_rows>>

\* the Equity column of the rows
Equities(rows) == [i \in 1..Len(rows) |-> rows[i].Equity]

\* a row of pnl_df: the snapshot and the Drawdown, DailyPnL, VaR columns
RiskRow(row, dd, pnl, var) ==
    [Date |-> row.Date, Cash |-> row.Cash, MarketValue |-> row.MarketValue,
     Equity |-> row.Equity, RealizedPnL |-> row.RealizedPnL,
     UnrealizedPnL |-> row.UnrealizedPnL,
     GrossExposure |-> row.GrossExposure, NetExposure |-> row.NetExposure,
     taken |-> row.taken, Drawdown |-> dd, DailyPnL |-> pnl, VaR |-> var]

\* main(): pnl_df and its Drawdown, DailyPnL and VaR columns;
\* rolling_historical_var raises when window < 20
D_Risk ==
    /\ pc = "risk"
    /\ IF args.var_window < MinVarWindow
       THEN /\ Raise("var_window")
            /\ UNCHANGED pnl_rows
       ELSE LET equity == Equities(pnl_rows)
                dd == compute_drawdown(equity)
                pnl == DailyPnL(equity)
                var == rolling_historical_var(pnl, args.var_window, args.var_alpha)
            IN  /\ pnl_rows' = [i \in 1..Len(pnl_rows) |->
                                   RiskRow(pnl_rows[i], dd[i], pnl[i], var[i])]
                /\ pc' = "alerts"
                /\ error' = error
    /\ UNCHANGED <<ledger, last, snap, script, args, n_rows, ohlcv, bars,
                   alert_rows>>

\* RiskLimits(max_gross_exposure, max_drawdown, max_var)
RiskLimits(a) ==
    [max_gross_exposure |-> a.max_gross, max_drawdown |-> a.max_dd,
     max_var |-> a.max_var]

\* an alerts pass that skips the rows whose VaR is NaN
RECURSIVE AlertsPass_skipsWarmup(_, _, _)
AlertsPass_skipsWarmup(rows, n, limits) ==
    IF n = 0
    THEN <<>>
    ELSE AlertsPass_skipsWarmup(rows, n - 1, limits)
         \o (IF rows[n].VaR.present
             THEN check_limits(rows[n].Date, rows[n], rows[n].VaR, limits)
             ELSE <<>>)

\* main(), the alerts pass over the first n rows of pnl_df
RECURSIVE AlertsPass(_, _, _)
AlertsPass(rows, n, limits) ==
    IF n = 0
    THEN <<>>
    ELSE AlertsPass(rows, n - 1, limits)
         \o check_limits(rows[n].Date, rows[n], rows[n].VaR, limits)

\* main(): the alerts pass; what follows it writes the outputs
D_Alerts ==
    /\ pc = "alerts"
    /\ alert_rows' = AlertsPass(pnl_rows, Len(pnl_rows), RiskLimits(args))
    /\ pc' = "done"
    /\ UNCHANGED <<ledger, last, snap, script, error, args, n_rows, ohlcv,
                   bars,
                   pnl_rows>>

NextDriver == D_CheckRows \/ D_Construct \/ D_Open \/ D_Close \/ D_Risk \/ D_Alerts

SpecDriver == InitDriver /\ [][NextDriver]_vars

\* ------------------------------------- calls of risk.py (SpecRisk)
\* check_limits(date, snapshot, var_value, limits): the columns it reads,
\* on both sides of each limit and on the limit itself
LimitCalls ==
    [fn : {"check_limits"},
     date : {1},
     row : [GrossExposure : {0, 1, 2},
            Drawdown : {Zero, <<1, 5>>, <<1, 2>>},
            Equity : {-1, 0, 1}],
     var_value : {None, NaN, Num(Zero), Num(Rat(1)), Num(Rat(2))},
     limits : [max_gross_exposure : {Rat(1)},
               max_drawdown : {<<1, 5>>},
               max_var : {Rat(1)}]]

\* a series of n values, base everywhere but u at index i and v at index j
Series(n, base, i, u, j, v) ==
    [k \in 1..n |-> IF k = j THEN v ELSE IF k = i THEN u ELSE base]

\* the PnL series: quiet days of 0 or 1, with one day anywhere and one of
\* the two end days moved by up to MaxMove
VarLens == (MinVarWindow - 1)..(MinVarWindow + VarExtra)
Moves == {-MaxMove, -1, 1}
VarSeries ==
    UNION {{Series(n, base, i, u, j, v) :
                base \in {0, 1}, i \in 1..n, u \in Moves, j \in {1, n},
                v \in Moves} : n \in VarLens}

\* rolling_historical_var(pnl_series, window, alpha)
VarCalls ==
    [fn : {"rolling_historical_var"},
     vals : VarSeries,
     window : VarLens,
     alpha : {<<99, 100>>, <<1, 2>>}]

\* the equity series of at most n values
RECURSIVE EquitySeries(_)
EquitySeries(n) ==
    IF n = 0
    THEN {<<>>}
    ELSE LET shorter == EquitySeries(n - 1)
         IN  shorter \cup {Append(e, x) : e \in {y \in shorter : Len(y) = n - 1},
                                          x \in -1..MaxEquity}

\* compute_drawdown(equity)
DrawdownCalls ==
    [fn : {"compute_drawdown"}, equity : EquitySeries(MaxEquityLen)]

InitRisk ==
    /\ initial_cash = 0
    /\ cash = 0
    /\ positions = NoPositions
    /\ realized_pnl = Zero
    /\ fills = <<>>
    /\ last = Call("none", "", 0, "ok")
    /\ snap = NoSnap
    /\ plan = <<>>
    /\ step = 0
    /\ pc = "call"
    /\ error = ""
    /\ args \in LimitCalls \cup VarCalls \cup DrawdownCalls
    /\ n_rows = 0
    /\ ohlcv = <<>>
    /\ bars = <<>>
    /\ pnl_rows = <<>>
    /\ alert_rows = <<>>

\* alert_rows holds the alerts check_limits returns
R_CheckLimits ==
    /\ pc = "call"
    /\ args.fn = "check_limits"
    /\ alert_rows' = check_limits(args.date, args.row, args.var_value, args.limits)
    /\ pc' = "returned"
    /\ UNCHANGED <<ledger, last, snap, script, error, args, n_rows, ohlcv,
                   bars, pnl_rows>>

\* pnl_rows holds the series rolling_historical_var returns
R_RollingVar ==
    /\ pc = "call"
    /\ args.fn = "rolling_historical_var"
    /\ IF args.window < MinVarWindow
       THEN /\ pc' = "failed"
            /\ error' = "var_window"
            /\ pnl_rows' = pnl_rows
       ELSE /\ pc' = "returned"
            /\ error' = error
            /\ pnl_rows' = rolling_historical_var(args.vals, args.window, args.alpha)
    /\ UNCHANGED <<ledger, last, snap, script, args, n_rows, ohlcv, bars,
                   alert_rows>>

\* pnl_rows holds the series compute_drawdown returns
R_Drawdown ==
    /\ pc = "call"
    /\ args.fn = "compute_drawdown"
    /\ pnl_rows' = compute_drawdown(args.equity)
    /\ pc' = "returned"
    /\ UNCHANGED <<ledger, last, snap, script, error, args, n_rows, ohlcv,
                   bars, alert_rows>>

NextRisk == R_CheckLimits \/ R_RollingVar \/ R_Drawdown

SpecRisk == InitRisk /\ [][NextRisk]_vars

\* ------------------------------------------- claims about the Portfolio
\* the Fill the last accepted call appended
LastFill == fills[Len(fills)]

\* the held quantity of a symbol, as get_position would report it
QtyOf(P, s) == IF s \in DOMAIN P THEN P[s].qty ELSE 0

\* this step is an apply_fill call that appended to the history
Accepts == last'.op = "apply_fill" /\ last'.outcome = "accepted"

\* C1: after every apply_fill call in any sequence of fills (qty > 0,
\* price > 0, commission >= 0, BUYs beyond the available cash included)
\* cash >= 0.
C1_CashNeverNegative == cash >= 0

\* C2: the Fill an accepted apply_fill appends carries the quantity that
\* was applied to the position (by which the held quantity moved), not the
\* one asked for.
C2_RecordedQtyIsEffective ==
    [][Accepts =>
        LET f == fills'[Len(fills')]
        IN  /\ Len(fills') = Len(fills) + 1
            /\ f.side = "BUY" =>
                 QtyOf(positions', f.symbol) = QtyOf(positions, f.symbol) + f.qty
            /\ f.side = "SELL" =>
                 QtyOf(positions', f.symbol) = QtyOf(positions, f.symbol) - f.qty]_vars

\* C3: an apply_fill call that drops its fill (a BUY clamped to <= 0, a
\* SELL of a symbol not held) leaves cash, the symbol -> Position mapping,
\* realized PnL and the fill history as they were.
C3_DroppedFillChangesNothing ==
    [][last'.op = "apply_fill" /\ last'.outcome = "dropped" =>
        /\ cash' = cash
        /\ positions' = positions
        /\ realized_pnl' = realized_pnl
        /\ fills' = fills]_vars

\* C4: an accepted apply_fill moves cash by exactly the amount of the Fill
\* it recorded: down by qty*price + commission for a BUY, up by
\* qty*price - commission for a SELL.
C4_CashMovesByRecordedFill ==
    [][Accepts =>
        LET f == fills'[Len(fills')]
        IN  /\ f.side = "BUY" =>
                 cash' = cash - (f.qty * f.price + f.commission)
            /\ f.side = "SELL" =>
                 cash' = cash + (f.qty * f.price - f.commission)]_vars

\* C6: after every apply_fill call every Position has qty >= 0, whatever
\* quantity a SELL asked for.
C6_QtyNeverNegative == \A s \in DOMAIN positions : positions[s].qty >= 0

\* a SELL asking for more than was held has been executed: one share was
\* bought, two were asked to be sold, none is left
C6_Witness ==
    /\ Len(fills) = 2
    /\ fills[1].side = "BUY" /\ fills[1].qty = 1
    /\ fills[2].side = "SELL" /\ fills[2].symbol = fills[1].symbol
    /\ last = Call("apply_fill", "SELL", 2, "accepted")
    /\ positions[fills[1].symbol].qty = 0

\* C7: in every reachable state of the ledger, every Position with
\* qty = 0 has avg_cost = 0.
C7_ZeroQtyZeroAvgCost ==
    \A s \in DOMAIN positions :
        positions[s].qty = 0 => positions[s].avg_cost = Zero

\* a position bought at a price above 0 has been sold out
C7_Witness ==
    /\ last = Call("apply_fill", "SELL", 1, "accepted")
    /\ fills[1].side = "BUY" /\ fills[1].symbol = LastFill.symbol
    /\ positions[LastFill.symbol].qty = 0

\* C8: realized PnL changes only in an executed SELL (every BUY, every
\* dropped or rejected fill and every other call leaves it alone), and an
\* executed SELL adds (sell_price - avg_cost) * sold_qty - commission,
\* avg_cost being the one before the sale.
C8_RealizedPnLOnlyOnSell ==
    [][IF Accepts /\ last'.side = "SELL"
       THEN LET f == fills'[Len(fills')]
                sold == positions[f.symbol].qty - positions'[f.symbol].qty
                gain == RMulInt(RSub(Rat(f.price), positions[f.symbol].avg_cost), sold)
            IN  realized_pnl' = RSub(RAdd(realized_pnl, gain), Rat(f.commission))
       ELSE realized_pnl' = realized_pnl]_vars

\* a SELL with a commission has been executed after a BUY
C8_Witness ==
    /\ last.op = "apply_fill" /\ last.side = "SELL" /\ last.outcome = "accepted"
    /\ LastFill.commission > 0
    /\ realized_pnl # Zero

\* C9: snapshot(date, prices) leaves cash, the positions mapping, realized
\* PnL and the fill history as they were, for any price map (one missing a
\* held symbol included), and the Equity it returns is Cash + MarketValue.
C9_SnapshotIsPure ==
    [][last'.op = "snapshot" =>
        /\ cash' = cash
        /\ positions' = positions
        /\ realized_pnl' = realized_pnl
        /\ fills' = fills
        /\ snap'.Cash = cash
        /\ snap'.Equity = snap'.Cash + snap'.MarketValue]_vars

\* a snapshot has been taken with a symbol priced that the ledger never
\* saw, while a held symbol has no price (its market value is 0)
C9_Witness ==
    /\ last.op = "snapshot" /\ snap.taken
    /\ \E s \in DOMAIN positions : positions[s].qty > 0
    /\ snap.MarketValue = 0
    /\ DOMAIN positions # Symbols

\* C10, as claimed: on a fresh ledger BUY N @ p1 then SELL N @ p2 with
\* zero commission leaves realized PnL = N * (p2 - p1), for every N > 0
\* and all positive prices p1, p2.
C10_RoundTripPnL ==
    step = 2 =>
        realized_pnl = Rat(plan[1].qty * (plan[2].price - plan[1].price))

\* C10, amended: the same, for every round trip whose BUY the initial cash
\* pays in full (N * p1 <= initial_cash).
C10_RoundTripPnLPaidInFull ==
    (step = 2 /\ plan[1].qty * plan[1].price <= initial_cash) =>
        realized_pnl = Rat(plan[1].qty * (plan[2].price - plan[1].price))

\* a paid round trip of three shares, sold above the buying price, is over
C10_Witness ==
    /\ step = 2
    /\ plan[1].qty = 3 /\ plan[1].qty * plan[1].price <= initial_cash
    /\ plan[2].price > plan[1].price
    /\ Len(fills) = 2 /\ positions[plan[1].symbol].qty = 0
    /\ realized_pnl # Zero

\* C5: a run with a configuration error (initial cash <= 0, VaR window
\* < 20, too few rows for the windows) fails before the simulation starts:
\* when it fails no bar has been processed, no fill applied and no
\* snapshot taken.
C5_ConfigErrorAbortsBeforeSimulation ==
    (pc = "failed" /\ error \in {"rows", "initial_cash", "var_window"}) =>
        /\ bars = <<>>
        /\ fills = <<>>
        /\ pnl_rows = <<>>

\* C11: when the total cost qty*price + commission of a BUY exceeds the
\* cash, the quantity accepted is floor((cash - commission) / price), the
\* largest q with q*price + commission <= cash.
C11_ClampIsLargestAffordable ==
    [][(Accepts /\ last'.side = "BUY") =>
        LET f == fills'[Len(fills')]
        IN  last'.qty * f.price + f.commission > cash =>
              /\ f.qty = (cash - f.commission) \div f.price
              /\ f.qty * f.price + f.commission <= cash
              /\ (f.qty + 1) * f.price + f.commission > cash
              /\ f.qty < last'.qty
              /\ cash' = cash - (f.qty * f.price + f.commission)]_vars

\* a BUY with a commission has been accepted for less than it asked for
C11_Witness ==
    /\ last = Call("apply_fill", "BUY", 2, "accepted")
    /\ LastFill.qty = 1
    /\ LastFill.commission > 0

\* C15: apply_fill with qty <= 0 or with a side other than BUY and SELL
\* fails with an error and leaves cash, the positions mapping, realized
\* PnL and the fill history as they were.
C15_InvalidFillRaises ==
    [][(last'.op = "apply_fill"
            /\ (last'.qty <= 0 \/ last'.side \notin {"BUY", "SELL"})) =>
        /\ last'.outcome = "raised"
        /\ cash' = cash
        /\ positions' = positions
        /\ realized_pnl' = realized_pnl
        /\ fills' = fills]_vars

\* a BUY of no shares has been refused by a ledger that never saw a symbol
C15_Witness ==
    /\ last = Call("apply_fill", "BUY", 0, "raised")
    /\ positions = NoPositions

\* the commissions of the BUY fills among the first n of the history
RECURSIVE BuyCommissions(_, _)
BuyCommissions(h, n) ==
    IF n = 0
    THEN 0
    ELSE BuyCommissions(h, n - 1)
         + (IF h[n].side = "BUY" THEN h[n].commission ELSE 0)

\* the symbols of which shares are held
Held == {s \in DOMAIN positions : positions[s].qty # 0}

\* C19: after any sequence of apply_fill calls, a snapshot whose price map
\* prices every held symbol has Equity = initial_cash + RealizedPnL +
\* UnrealizedPnL - (the commissions of the accepted BUY fills); without
\* that last term the equation holds only when no BUY commission was paid.
\* (It holds of every snapshot taken: a held symbol without a price is
\* valued at 0 in MarketValue and in UnrealizedPnL alike.)
C19_EquityIdentity ==
    snap.taken =>
        LET paid == BuyCommissions(fills, Len(fills))
            pnl == RAdd(Rat(initial_cash),
                        RAdd(snap.RealizedPnL, snap.UnrealizedPnL))
        IN  /\ Rat(snap.Equity) = RSub(pnl, Rat(paid))
            /\ (Rat(snap.Equity) = pnl) <=> (paid = 0)

\* a snapshot has priced the one held symbol, after a BUY and a SELL that
\* both paid a commission
C19_Witness ==
    /\ last.op = "snapshot" /\ snap.taken
    /\ Cardinality(Held) = 1
    /\ snap.MarketValue > 0
    /\ Len(fills) = 2
    /\ fills[1].side = "BUY" /\ fills[1].commission > 0
    /\ fills[2].side = "SELL" /\ fills[2].commission > 0
    /\ Rat(snap.Equity) =
         RSub(RAdd(Rat(initial_cash), RAdd(snap.RealizedPnL, snap.UnrealizedPnL)),
              Rat(BuyCommissions(fills, Len(fills))))

\* ------------------------------------------------- claims about risk.py
AlertTypes == {"GROSS_EXPOSURE", "DRAWDOWN", "VAR", "EQUITY_NONPOSITIVE"}

\* the types of the alerts in a list
TypesOf(alerts) == {alerts[i].Type : i \in 1..Len(alerts)}

\* C12: check_limits emits each alert on its own condition: GROSS_EXPOSURE
\* iff gross > max_gross_exposure, DRAWDOWN iff drawdown >= max_drawdown,
\* VAR iff the VaR is present and > max_var, EQUITY_NONPOSITIVE iff
\* equity <= 0; each at most once, and every subset of the four is what
\* some call returns, so no alert suppresses another.
C12_AlertsIndependent ==
    (pc = "returned" /\ args.fn = "check_limits") =>
        LET fired == TypesOf(alert_rows)
            row == args.row
            v == args.var_value
            lim == args.limits
        IN  /\ fired \subseteq AlertTypes
            /\ Len(alert_rows) = Cardinality(fired)
            /\ ("GROSS_EXPOSURE" \in fired)
                 <=> (row.GrossExposure * lim.max_gross_exposure[2]
                        > lim.max_gross_exposure[1])
            /\ ("DRAWDOWN" \in fired)
                 <=> (row.Drawdown[1] * lim.max_drawdown[2]
                        >= lim.max_drawdown[1] * row.Drawdown[2])
            /\ ("VAR" \in fired)
                 <=> (/\ v \notin {None, NaN}
                      /\ v.value[1] * lim.max_var[2] > lim.max_var[1] * v.value[2])
            /\ ("EQUITY_NONPOSITIVE" \in fired) <=> (row.Equity <= 0)
            /\ \A S \in SUBSET AlertTypes :
                 \E c \in LimitCalls :
                    TypesOf(check_limits(c.date, c.row, c.var_value, c.limits)) = S

\* one call has returned all four alerts
C12_Witness ==
    /\ pc = "returned" /\ args.fn = "check_limits"
    /\ TypesOf(alert_rows) = AlertTypes
    /\ Len(alert_rows) = 4

\* the largest loss among x[a..b], 0 when there is none
RECURSIVE WorstLoss(_, _, _)
WorstLoss(x, a, b) ==
    IF a > b THEN 0 ELSE Max(-x[a], WorstLoss(x, a + 1, b))

C14_DrawdownInUnitInterval ==
    (/\ pc = "returned"
     /\ args.fn = "compute_drawdown"
     /\ \A k \in 1..Len(args.equity) : args.equity[k] > 0) =>
        /\ DOMAIN pnl_rows = 1..Len(args.equity)
        /\ \A i \in 1..Len(args.equity) :
             LET eq == args.equity
                 peak == CHOOSE m \in {eq[k] : k \in 1..i} :
                            \A k \in 1..i : eq[k] <= m
                 dd == pnl_rows[i]
             IN  /\ 0 <= dd[1] /\ dd[1] < dd[2]
                 /\ dd[1] * peak = (peak - eq[i]) * dd[2]
                 /\ (eq[i] = peak) => (dd = Zero)

\* a series of positive equities fell to half its peak and then made a
\* new peak
C14_Witness ==
    /\ pc = "returned"
    /\ args.fn = "compute_drawdown"
    /\ args.equity = <<1, 2, 1, 2>>
    /\ pnl_rows = <<Zero, Zero, <<1, 2>>, Zero>>

\* --------------------------------------------- claims about the driver
\* the loop has taken one snapshot per row it is done with, in row order
OneSnapshotPerBar ==
    /\ pc = "open" => Len(pnl_rows) = Len(bars)
    /\ pc = "close" => Len(pnl_rows) = Len(bars) - 1
    /\ pc \in {"risk", "alerts", "done"} =>
         Len(pnl_rows) = n_rows /\ Len(bars) = n_rows
    /\ pc # "failed" => \A i \in 1..Len(pnl_rows) : pnl_rows[i].Date = i
    /\ \A k \in 1..Len(fills) :
         /\ fills[k].date \in 1..Len(bars)
         /\ k > 1 => fills[k - 1].date < fills[k].date

\* a fill is recorded for the row whose snapshot is the next to be taken
FillBeforeSnapshot ==
    Len(fills') > Len(fills) =>
        /\ fills'[Len(fills')].date = Len(pnl_rows) + 1
        /\ fills'[Len(fills')].date = Len(bars')
        /\ pnl_rows' = pnl_rows

\* a snapshot is appended for the last row reached, of the ledger as it is
SnapshotAfterFill ==
    Len(pnl_rows') > Len(pnl_rows) =>
        LET row == pnl_rows'[Len(pnl_rows')]
        IN  /\ SubSeq(pnl_rows', 1, Len(pnl_rows)) = pnl_rows
            /\ Len(pnl_rows') = Len(bars)
            /\ row.Date = Len(bars)
            /\ row.Cash = cash
            /\ row.MarketValue = QtyOf(positions, Ticker) * bars[Len(bars)].Close
            /\ row.Equity = row.Cash + row.MarketValue
            /\ row.RealizedPnL = realized_pnl
            /\ UNCHANGED ledger

\* C16: the driver takes the bars in order and, for each, applies the
\* bar's fill (when there is a decision) before it takes the bar's
\* snapshot; it appends one snapshot per bar, in bar order, and each shows
\* the ledger as it is after the bar's fill.
C16_FillThenSnapshotPerBar ==
    /\ []OneSnapshotPerBar
    /\ [][FillBeforeSnapshot /\ SnapshotAfterFill]_vars

\* a run is over: the first fill came on a later bar than the first, and
\* the snapshot of its bar is the first to show less cash
C16_Witness ==
    /\ pc = "done"
    /\ Len(pnl_rows) = n_rows
    /\ Len(fills) >= 2
    /\ fills[1].date > 1
    /\ pnl_rows[fills[1].date - 1].Cash = initial_cash
    /\ pnl_rows[fills[1].date].Cash
         = initial_cash - (fills[1].qty * fills[1].price + fills[1].commission)

\* the alerts of one type and one date
AlertsOf(type, date) ==
    {i \in 1..Len(alert_rows) :
        alert_rows[i].Type = type /\ alert_rows[i].Date = date}

\* C17: the alerts pass evaluates the limits for every date of the
\* snapshot series; a date in the VaR warm-up (index < window - 1,
\* 0-based) never gets a VAR alert, and gets the other three alerts as
\* any other date does.
C17_NoVarAlertInWarmup ==
    pc = "done" =>
        \A d \in 1..n_rows :
            LET row == pnl_rows[d]
                one(type, due) ==
                    Cardinality(AlertsOf(type, d)) = IF due THEN 1 ELSE 0
            IN  /\ one("GROSS_EXPOSURE",
                       RLess(args.max_gross, Rat(row.GrossExposure)))
                /\ one("DRAWDOWN", RLeq(args.max_dd, row.Drawdown))
                /\ one("EQUITY_NONPOSITIVE", row.Equity <= 0)
                /\ d < args.var_window => AlertsOf("VAR", d) = {}
                /\ d >= args.var_window =>
                     one("VAR", RLess(args.max_var, row.VaR.value))

\* a run is over with a VAR alert after the warm-up, and with alerts of
\* other types on dates of the warm-up
C17_Witness ==
    /\ pc = "done"
    /\ \E d \in args.var_window..n_rows : AlertsOf("VAR", d) # {}
    /\ \E d \in 1..(args.var_window - 1) : AlertsOf("DRAWDOWN", d) # {}
    /\ \E d \in 1..(args.var_window - 1) : AlertsOf("GROSS_EXPOSURE", d) # {}

\* C18: in a driver run with trade_size > 0, the quantity of every SELL
\* passed to apply_fill is between 1 and the quantity held, so apply_fill
\* neither caps nor drops a SELL, and every SELL in the history has the
\* quantity that left the position.
C18_DriverSellsWithinHolding ==
    [][(/\ pc = "open"
        /\ args.trade_size > 0
        /\ last'.op = "apply_fill"
        /\ last'.side = "SELL") =>
            /\ 1 <= last'.qty
            /\ last'.qty <= QtyOf(positions, Ticker)
            /\ last'.outcome = "accepted"
            /\ Len(fills') = Len(fills) + 1
            /\ fills'[Len(fills')].side = "SELL"
            /\ fills'[Len(fills')].qty = last'.qty
            /\ QtyOf(positions', Ticker)
                 = QtyOf(positions, Ticker) - fills'[Len(fills')].qty]_vars

\* the trader, with a trade size of 2, has sold the one share held
C18_Witness ==
    /\ pc = "close"
    /\ args.trade_size = 2
    /\ last = Call("apply_fill", "SELL", 1, "accepted")
    /\ LastFill.side = "SELL" /\ LastFill.qty = 1
    /\ QtyOf(positions, Ticker) = 0

=============================================================================
